---- MODULE Spec2Model ----
(***************************************************************************)
(* Model of projekt2.cpp: a route planner that loads a directed weighted   *)
(* graph from an edge list, then resolves a batch of (start, end) queries  *)
(* with Dijkstra's algorithm and reconstructs each route from predecessor  *)
(* links.                                                                  *)
(*                                                                         *)
(* Node names are std::string in the program.  Here a name is a number of *)
(* Names, and the numeric order stands for the lexicographic order of the  *)
(* strings; the empty string "" (the "no predecessor" mark, smaller than   *)
(* every name) is 0.                                                       *)
(***************************************************************************)
EXTENDS Integers, Sequences, FiniteSets, TLC

\* ---- bounds of the model ------------------------------------------------
MaxRows == 4
MaxQueries == 2

\* ---- program constants --------------------------------------------------
INT_MAX == 2147483647
NoNode == 0

\* the names and the weights that occur in the input files
Names == {1, 2, 3}
Weights == {0, 1}

\* ---- input lines: whitespace separated tokens --------------------------
\* A token is a word of the line; `numeric` tells whether operator>> into an
\* int succeeds on it, `val` is the name (or the parsed number).
Word(n) == [val |-> n, numeric |-> FALSE]
Number(w) == [val |-> w, numeric |-> TRUE]
Junk == [val |-> 0, numeric |-> FALSE]

RowLines ==
    {<< >>}
    \cup {<<Word(s)>> : s \in Names}
    \cup {<<Word(s), Word(d)>> : s \in Names, d \in Names}
    \cup {<<Word(s), Word(d), Junk>> : s \in Names, d \in Names}
    \cup {<<Word(s), Word(d), Number(w)>> : s \in Names, d \in Names, w \in Weights}

QueryLines ==
    {<< >>}
    \cup {<<Word(s)>> : s \in Names}
    \cup {<<Word(s), Word(e)>> : s \in Names, e \in Names}

\* ss >> word succeeds when the line still has an i-th token
HasWord(ln, i) == Len(ln) >= i
\* ss >> distance succeeds when the third token exists and is an integer
HasInt(ln, i) == Len(ln) >= i /\ ln[i].numeric

\* ---- std::pair ordering (operator< of std::pair) ------------------------
PairLess(a, b) == a[1] < b[1] \/ (a[1] = b[1] /\ a[2] < b[2])

\* *S.begin() of a std::set of pairs
Begin(S) == CHOOSE m \in S : \A x \in S : x = m \/ PairLess(m, x)

\* ---- 32-bit int addition ------------------------------------------------
\* a + b for an int a and a weight b >= 0; past INT_MAX the sum wraps to
\* a + b - 2^32, the two's-complement outcome of the overflow.
IntAdd(a, b) ==
    IF b >= 0 /\ a > INT_MAX - b THEN (a - INT_MAX) + (b - INT_MAX) - 2 ELSE a + b

\* ---- Graph: std::map<string, std::set<pair<string,int>>> ----------------
EmptyGraph == [n \in {} |-> {}]

\* graph[key]: inserts an empty edge set when the key is absent
Touch(g, k) == IF k \in DOMAIN g THEN g ELSE [n \in DOMAIN g \cup {k} |-> IF n = k THEN {} ELSE g[n]]

AddEdgeNoDestination(g, s, d, w) ==
    LET g1 == Touch(g, s) IN [g1 EXCEPT ![s] = g1[s] \cup {<<d, w>>}]

\* graph[source].insert({destination, distance}); graph[destination];
AddEdge(g, s, d, w) ==
    LET g1 == Touch(g, s)
        g2 == [g1 EXCEPT ![s] = g1[s] \cup {<<d, w>>}]
    IN Touch(g2, d)

\* graph.count(n) > 0
HasRecord(g, n) == n \in DOMAIN g

\* ---- paths: std::map<string, pair<int,string>> --------------------------
\* paths[key]: inserts a value-initialised pair (0, "") when the key is absent
Index(p, k) == IF k \in DOMAIN p THEN p ELSE [n \in DOMAIN p \cup {k} |-> IF n = k THEN <<0, NoNode>> ELSE p[n]]

\* the initialisation loop of Dijkstra
InitialPaths(g, start) ==
    [n \in DOMAIN g |-> IF n = start THEN <<0, NoNode>> ELSE <<INT_MAX, NoNode>>]

CandidateDistanceEdgeOnly(d, w) == w

\* int newDistance = paths[current].first + neighbor.second;
CandidateDistance(d, w) == IntAdd(d, w)

ImprovesOrEqual(newDistance, old) == newDistance <= old

\* if (newDistance < paths[neighbor.first].first)
Improves(newDistance, old) == newDistance < old

UpdatedRecordSelf(newDistance, current, neighbor) == <<newDistance, neighbor>>

\* paths[neighbor.first].first = newDistance; paths[neighbor.first].second = current;
UpdatedRecord(newDistance, current, neighbor) == <<newDistance, current>>

RelaxEdgeAlwaysInsert(p, q, current, neighbor) ==
    LET p0 == Index(p, current)
        newDistance == CandidateDistance(p0[current][1], neighbor[2])
        p1 == Index(p0, neighbor[1])
    IN IF Improves(newDistance, p1[neighbor[1]][1])
       THEN <<[p1 EXCEPT ![neighbor[1]] = UpdatedRecord(newDistance, current, neighbor[1])],
              q \cup {<<newDistance, neighbor[1]>>}>>
       ELSE <<p1, q \cup {<<newDistance, neighbor[1]>>}>>

\* the body of the for loop: candidate, comparison, update and queue.insert
RelaxEdge(p, q, current, neighbor) ==
    LET p0 == Index(p, current)
        newDistance == CandidateDistance(p0[current][1], neighbor[2])
        p1 == Index(p0, neighbor[1])
    IN IF Improves(newDistance, p1[neighbor[1]][1])
       THEN <<[p1 EXCEPT ![neighbor[1]] = UpdatedRecord(newDistance, current, neighbor[1])],
              q \cup {<<newDistance, neighbor[1]>>}>>
       ELSE <<p1, q>>

\* the for loop over graph.at(current), in the order of the std::set
\* (r ranges over a one-element set, so each iteration's result is computed once)
RECURSIVE RelaxFrom(_, _, _, _)
RelaxFrom(S, current, p, q) ==
    IF S = {} THEN <<p, q>>
    ELSE LET neighbor == Begin(S)
         IN CHOOSE out \in {RelaxFrom(S \ {neighbor}, current, r[1], r[2]) :
                               r \in {RelaxEdge(p, q, current, neighbor)}} : TRUE

\* ---- createResultsMessage ----------------------------------------------
Reverse(s) == [i \in 1..Len(s) |-> s[Len(s) + 1 - i]]

LastMatch(edges, nextCity) ==
    LET M == {e \in edges : e[1] = nextCity}
    IN IF M = {} THEN 0 ELSE (CHOOSE m \in M : \A x \in M : x = m \/ PairLess(x, m))[2]

\* the inner scan: distance of the first entry whose name is nextCity, 0 if none
FirstMatch(edges, nextCity) ==
    LET M == {e \in edges : e[1] = nextCity}
    IN IF M = {} THEN 0 ELSE Begin(M)[2]

\* the leg loop over the reversed path (i from 0 while i < path.size() - 1)
Legs(g, route) ==
    [i \in 1..(Len(route) - 1) |->
        <<route[i], route[i + 1], FirstMatch(g[route[i]], route[i + 1])>>]

\* ---- messages appended to the result file -------------------------------
NoMessage == [outcome |-> "none", start |-> NoNode, end |-> NoNode, total |-> 0, legs |-> << >>]
Brak(s, e) == [outcome |-> "Brak informacji o polaczeniu", start |-> s, end |-> e, total |-> 0, legs |-> << >>]
Niemozliwa(s, e) == [outcome |-> "Trasa niemozliwa do wyznaczenia", start |-> s, end |-> e, total |-> 0, legs |-> << >>]
Resolved(s, e, t, l) == [outcome |-> "Trasa", start |-> s, end |-> e, total |-> t, legs |-> l]

UnknownBoth(g, s, e) == ~HasRecord(g, s) /\ ~HasRecord(g, e)
UnknownStartOnly(g, s, e) == ~HasRecord(g, s)
UnknownEndOnly(g, s, e) == ~HasRecord(g, e)

\* graph.count(start) == 0 || graph.count(end) == 0
UnknownEndpoint(g, s, e) == ~HasRecord(g, s) \/ ~HasRecord(g, e)

\* ---- state --------------------------------------------------------------
VARIABLES
    pc,          \* position of main: "load", "queries", "engine", "classify", "walk", "terminated", "done"
    graph,       \* the Graph built by loadFromFile
    line,        \* the line last read by std::getline
    rowsRead,    \* lines consumed from the roads file
    queriesRead, \* lines consumed from the routes file
    start, end,  \* the query being resolved
    paths,       \* Dijkstra's result map
    queue,       \* Dijkstra's frontier, a std::set of (distance, name)
    extracted,   \* the entry last taken from queue.begin()
    exitedBy,    \* how the while loop of Dijkstra was left: "none", "empty", "break"
    path,        \* createResultsMessage: the vector of names walked so far
    current,     \* createResultsMessage: cursor of the backward walk
    message      \* the text handed to saveResultsToFile for this query

vars == <<pc, graph, line, rowsRead, queriesRead, start, end, paths, queue,
          extracted, exitedBy, path, current, message>>

engineVars == <<paths, queue, extracted, exitedBy>>
walkVars == <<path, current>>
queryVars == <<start, end>>

Init ==
    /\ pc = "load"
    /\ graph = EmptyGraph
    /\ line = << >>
    /\ rowsRead = 0
    /\ queriesRead = 0
    /\ start = NoNode
    /\ end = NoNode
    /\ paths = EmptyGraph
    /\ queue = {}
    /\ extracted = <<0, NoNode>>
    /\ exitedBy = "none"
    /\ path = << >>
    /\ current = NoNode
    /\ message = NoMessage

\* ---- loadFromFile -------------------------------------------------------
\* one iteration of the getline loop
LoadRow ==
    /\ pc = "load"
    /\ rowsRead < MaxRows
    /\ \E ln \in RowLines :
        /\ line' = ln
        /\ graph' = IF HasWord(ln, 1) /\ HasWord(ln, 2) /\ HasInt(ln, 3)
                    THEN AddEdge(graph, ln[1].val, ln[2].val, ln[3].val)
                    ELSE graph
    /\ rowsRead' = rowsRead + 1
    /\ UNCHANGED <<pc, queriesRead, queryVars, engineVars, walkVars, message>>

\* getline fails at end of file: the graph is returned to main
LoadEOF ==
    /\ pc = "load"
    /\ pc' = "queries"
    /\ line' = << >>
    /\ rowsRead' = 0
    /\ UNCHANGED <<graph, queriesRead, queryVars, engineVars, walkVars, message>>

\* ---- main: the query loop ----------------------------------------------
\* getline of the routes file, parsing, and the call of Dijkstra up to its loop
ReadQuery ==
    /\ pc = "queries"
    /\ queriesRead < MaxQueries
    /\ queriesRead' = queriesRead + 1
    /\ message' = NoMessage
    /\ \E ln \in QueryLines :
        /\ line' = ln
        /\ IF HasWord(ln, 1) /\ HasWord(ln, 2)
           THEN /\ start' = ln[1].val
                /\ end' = ln[2].val
                /\ paths' = InitialPaths(graph, ln[1].val)
                /\ queue' = {<<0, ln[1].val>>}
                /\ extracted' = <<0, NoNode>>
                /\ exitedBy' = "none"
                /\ pc' = "engine"
           ELSE /\ start' = NoNode
                /\ end' = NoNode
                /\ paths' = EmptyGraph
                /\ queue' = {}
                /\ extracted' = <<0, NoNode>>
                /\ exitedBy' = "none"
                /\ pc' = "queries"
    /\ path' = << >>
    /\ current' = NoNode
    /\ UNCHANGED <<graph, rowsRead>>

QueriesEOF ==
    /\ pc = "queries"
    /\ pc' = "done"
    /\ UNCHANGED <<graph, line, rowsRead, queriesRead, queryVars, engineVars, walkVars, message>>

\* ---- Dijkstra: one iteration of while (!queue.empty()) ------------------
DijkstraStep ==
    /\ pc = "engine"
    /\ queue # {}
    /\ LET top == Begin(queue)
           cur == top[2]
           rest == queue \ {top}
       IN /\ extracted' = top
          /\ IF HasRecord(graph, cur)
             THEN \E r \in {RelaxFrom(graph[cur], cur, paths, rest)} :
                     /\ paths' = r[1]
                     /\ queue' = r[2]
                     /\ exitedBy' = exitedBy
                     /\ pc' = pc
             ELSE /\ paths' = paths
                  /\ queue' = rest
                  /\ exitedBy' = "break"
                  /\ pc' = "classify"
    /\ UNCHANGED <<graph, line, rowsRead, queriesRead, queryVars, walkVars, message>>

\* the loop condition fails: return paths
DijkstraReturn ==
    /\ pc = "engine"
    /\ queue = {}
    /\ exitedBy' = "empty"
    /\ pc' = "classify"
    /\ UNCHANGED <<graph, line, rowsRead, queriesRead, queryVars, paths, queue, extracted, walkVars, message>>

\* ---- main: the if / else if / else after the call -----------------------
Classify ==
    /\ pc = "classify"
    /\ IF UnknownEndpoint(graph, start, end)
       THEN /\ message' = Brak(start, end)
            /\ pc' = "queries"
            /\ UNCHANGED <<paths, walkVars>>
       ELSE LET p1 == Index(paths, end)
            IN /\ paths' = p1
               /\ IF p1[end][1] # INT_MAX /\ end \in DOMAIN p1
                  THEN /\ path' = << >>
                       /\ current' = end
                       /\ pc' = "walk"
                       /\ message' = message
                  ELSE /\ message' = Niemozliwa(start, end)
                       /\ pc' = "queries"
                       /\ UNCHANGED walkVars
    /\ UNCHANGED <<graph, line, rowsRead, queriesRead, queryVars, queue, extracted, exitedBy>>

\* createResultsMessage: one iteration of while (!current.empty());
\* paths.at throws std::out_of_range for a missing key, which nothing catches
WalkStep ==
    /\ pc = "walk"
    /\ current # NoNode
    /\ path' = Append(path, current)
    /\ IF current \in DOMAIN paths
       THEN /\ current' = paths[current][2]
            /\ pc' = pc
       ELSE /\ current' = current
            /\ pc' = "terminated"
    /\ UNCHANGED <<graph, line, rowsRead, queriesRead, queryVars, engineVars, message>>

\* createResultsMessage: reverse, the leg loop, and saveResultsToFile in main;
\* graph.at throws std::out_of_range for a missing key
BuildMessage ==
    /\ pc = "walk"
    /\ current = NoNode
    /\ LET route == Reverse(path)
       IN IF \A i \in 1..(Len(route) - 1) : route[i] \in DOMAIN graph
          THEN /\ message' = Resolved(start, end, paths[end][1], Legs(graph, route))
               /\ pc' = "queries"
          ELSE /\ message' = message
               /\ pc' = "terminated"
    /\ UNCHANGED <<graph, line, rowsRead, queriesRead, queryVars, engineVars, walkVars>>

Next ==
    \/ LoadRow
    \/ LoadEOF
    \/ ReadQuery
    \/ QueriesEOF
    \/ DijkstraStep
    \/ DijkstraReturn
    \/ Classify
    \/ WalkStep
    \/ BuildMessage

Spec == Init /\ [][Next]_vars

\* ---- Dijkstra on its own -------------------------------------------------
\* The program up to the first return of Dijkstra.  Dijkstra is a function
\* of (graph, start): `end` is a parameter it never reads, so the calls are
\* taken with end = start.
EngineCall ==
    /\ ReadQuery
    /\ pc' = "engine"
    /\ end' = start'

EngineNext ==
    \/ LoadRow
    \/ LoadEOF
    \/ EngineCall
    \/ DijkstraStep
    \/ DijkstraReturn

\* The program is one sequential thread: a step that can run does run.
EngineSpec == Init /\ [][EngineNext]_vars /\ WF_vars(EngineNext)

\* ---- reference definitions used by the properties -----------------------
MinOf(S) == IF S = {} THEN INT_MAX ELSE CHOOSE m \in S : \A x \in S : m <= x

\* least total weight over the directed paths from u to t that repeat no node
\* (enumeration of every simple path); INT_MAX when there is none
RECURSIVE BruteForce(_, _, _, _)
BruteForce(g, u, t, visited) ==
    IF u = t THEN 0
    ELSE IF u \notin DOMAIN g THEN INT_MAX
    ELSE LET tails == {<<e[2], BruteForce(g, e[1], t, visited \cup {e[1]})>> :
                          e \in {x \in g[u] : x[1] \notin visited}}
         IN MinOf({c[1] + c[2] : c \in {x \in tails : x[2] # INT_MAX}})

ShortestDistance(g, s, t) == BruteForce(g, s, t, {s})

RECURSIVE SumLegs(_)
SumLegs(l) == IF l = << >> THEN 0 ELSE l[1][3] + SumLegs(Tail(l))

Emitted == message.outcome # "none"
EngineReturned == pc = "classify"
InRun == pc \in {"engine", "classify", "walk"}

\* following predecessor links from n reaches s without visiting a node twice
RECURSIVE ChainToSource(_, _, _, _)
ChainToSource(p, n, s, seen) ==
    IF n = s THEN TRUE
    ELSE IF n \notin DOMAIN p \/ n \in seen THEN FALSE
    ELSE ChainToSource(p, p[n][2], s, seen \cup {n})

ZeroCycleThrough(g, n) ==
    /\ n \in DOMAIN g
    /\ <<n, 0>> \in g[n]
    /\ \E v \in DOMAIN g : v # n /\ <<v, 0>> \in g[n] /\ <<n, 0>> \in g[v]

\* ---- C1 -----------------------------------------------------------------
\* C1: when Dijkstra returns for a source that is a node of the graph, every
\* node's recorded distance equals the least total weight over all directed
\* paths from the source (brute-force enumeration), and a node with no path
\* from the source keeps INT_MAX.
C1_ShortestDistances ==
    (EngineReturned /\ HasRecord(graph, start)) =>
        /\ DOMAIN paths = DOMAIN graph
        /\ \A n \in DOMAIN graph : paths[n][1] = ShortestDistance(graph, start, n)

\* a returned run in which a two-edge route beats the direct edge
C1_Witness ==
    /\ EngineReturned /\ HasRecord(graph, start)
    /\ \E n \in DOMAIN graph : \E e \in graph[start] :
          e[1] = n /\ n # start /\ paths[n][1] < MinOf({x[2] : x \in {y \in graph[start] : y[1] = n}})

\* ---- C2 -----------------------------------------------------------------
\* C2 (as stated): no engine run is in progress for a query whose origin or
\* destination is not a node of the graph.
C2_EngineNeverRunsForUnknown ==
    pc = "engine" => (HasRecord(graph, start) /\ HasRecord(graph, end))

\* C2 (amended): the engine is run for every well-formed query before the
\* node check; for a query with an unknown origin or destination the run has
\* ended by the time the result is emitted, its map is not consulted, and the
\* result is "Brak informacji o polaczeniu".
C2_UnknownRunsEngineThenBrak ==
    /\ (Emitted /\ (~HasRecord(graph, start) \/ ~HasRecord(graph, end))) =>
          /\ message = Brak(start, end)
          /\ exitedBy \in {"empty", "break"}
    /\ (pc = "classify") => exitedBy \in {"empty", "break"}

\* an unknown destination: the engine ran to completion and relaxed an edge
C2_Witness ==
    /\ Emitted /\ message = Brak(start, end)
    /\ HasRecord(graph, start) /\ ~HasRecord(graph, end)
    /\ exitedBy = "empty"
    /\ \E n \in DOMAIN paths : paths[n][2] # NoNode

\* ---- C3 -----------------------------------------------------------------
\* C3: each well-formed query ends in exactly one outcome: "Brak informacji
\* o polaczeniu" iff an endpoint is not a node of the graph; otherwise
\* "Trasa niemozliwa do wyznaczenia" iff no directed path leads from origin
\* to destination; otherwise a resolved route with its total distance.
C3_Outcomes ==
    /\ pc # "terminated"
    /\ Emitted =>
        LET known == HasRecord(graph, start) /\ HasRecord(graph, end)
            dist == ShortestDistance(graph, start, end)
        IN /\ message.start = start /\ message.end = end
           /\ message.outcome = "Brak informacji o polaczeniu" <=> ~known
           /\ message.outcome = "Trasa niemozliwa do wyznaczenia" <=> (known /\ dist = INT_MAX)
           /\ message.outcome = "Trasa" <=> (known /\ dist # INT_MAX)
           /\ message.outcome = "Trasa" => message.total = dist

\* both endpoints known, the destination has an edge to the origin, no path back
C3_Witness ==
    /\ Emitted /\ message.outcome = "Trasa niemozliwa do wyznaczenia"
    /\ HasRecord(graph, start) /\ HasRecord(graph, end)
    /\ \E e \in graph[end] : e[1] = start

\* ---- C4 -----------------------------------------------------------------
\* C4: for a resolved query the legs lead from origin to destination and
\* their distances add up to the total of the header, also when the graph
\* has several edges of different weight between the same two nodes.
C4_LegsSumToTotal ==
    (Emitted /\ message.outcome = "Trasa") =>
        LET l == message.legs
        IN /\ SumLegs(l) = message.total
           /\ \A i \in 1..Len(l) :
                /\ l[i][1] = (IF i = 1 THEN start ELSE l[i - 1][2])
                /\ <<l[i][2], l[i][3]>> \in graph[l[i][1]]
           /\ (l # << >>) => l[Len(l)][2] = end
           /\ (l = << >>) => start = end

\* a resolved route of two legs, one of them over a pair of parallel edges
C4_Witness ==
    /\ Emitted /\ message.outcome = "Trasa"
    /\ Len(message.legs) >= 2
    /\ \E i \in 1..Len(message.legs) :
         \E e \in graph[message.legs[i][1]] :
            e[1] = message.legs[i][2] /\ e[2] # message.legs[i][3]

\* ---- C5 -----------------------------------------------------------------
\* C5: a query whose origin equals its destination, a node of the graph, is
\* resolved with total 0 and no legs; during the run the source keeps
\* distance 0 and never acquires a predecessor.
C5_SameNode ==
    /\ (InRun /\ HasRecord(graph, start)) => paths[start] = <<0, NoNode>>
    /\ (Emitted /\ start = end /\ HasRecord(graph, start)) =>
          message = Resolved(start, end, 0, << >>)

\* the node has a zero-weight self-loop and lies on a zero-weight two-cycle
C5_Witness ==
    /\ Emitted /\ start = end
    /\ ZeroCycleThrough(graph, start)
    /\ message.outcome = "Trasa"

\* ---- C6 -----------------------------------------------------------------
\* C6 (as stated): once the engine has left its loop on a node the graph has
\* no record for, no result is emitted for the query and no further query is
\* read.
C6_UnknownNodeAbortsBatch ==
    [][(exitedBy = "break") => (message'.outcome = "none" /\ queriesRead' = queriesRead)]_vars

\* C6 (amended): the engine leaves its loop on a node the graph has no
\* record for only when that node is the query's origin, at the first
\* extraction; it returns normally a map in which every node is unreached,
\* the query gets the ordinary outcome "Brak informacji o polaczeniu", and
\* main is back at reading the next query.
C6_UnknownNodeIsUnknownOrigin ==
    (exitedBy = "break") =>
        /\ ~HasRecord(graph, start)
        /\ extracted = <<0, start>>
        /\ queue = {}
        /\ \A n \in DOMAIN paths : paths[n] = <<INT_MAX, NoNode>>
        /\ pc \in {"classify", "queries", "done"}
        /\ Emitted => (message = Brak(start, end) /\ pc \in {"queries", "done"})

\* unknown origin, known destination, result emitted, loop ready for more
C6_Witness ==
    /\ exitedBy = "break" /\ Emitted
    /\ HasRecord(graph, end)
    /\ pc = "queries" /\ queriesRead < MaxQueries

\* ---- C7 -----------------------------------------------------------------
WellFormedRow(ln) == HasWord(ln, 1) /\ HasWord(ln, 2) /\ HasInt(ln, 3)

DestinationsAreKeys ==
    \A n \in DOMAIN graph : \A e \in graph[n] : e[1] \in DOMAIN graph

\* C7: every destination of an edge is a key of the graph, and reading a row
\* with fewer than three parseable fields leaves the graph as it was.
C7_DestinationsAreKeys ==
    /\ []DestinationsAreKeys
    /\ [][(pc = "load" /\ rowsRead' = rowsRead + 1 /\ ~WellFormedRow(line')) => graph' = graph]_vars

\* a row with a non-numeric weight was just skipped; some node is only a destination
C7_Witness ==
    /\ pc = "load" /\ rowsRead >= 2
    /\ Len(line) = 3 /\ ~WellFormedRow(line)
    /\ \E n \in DOMAIN graph : graph[n] = {} /\ \E m \in DOMAIN graph : \E e \in graph[m] : e[1] = n
    /\ line[1].val \notin DOMAIN graph

\* ---- C8 -----------------------------------------------------------------
\* C8: every engine run leaves its loop, and an entry enters the frontier
\* during the loop only together with a strict decrease of that node's
\* recorded distance.
C8_EngineTerminates ==
    /\ (pc = "engine") ~> (pc = "classify")
    /\ [][(pc = "engine" /\ pc' = "engine") =>
             \A e \in queue' \ queue :
                 /\ e[2] \in DOMAIN paths
                 /\ paths'[e[2]][1] < paths[e[2]][1]]_vars

\* a run over a zero-weight cycle through the source has ended on an empty frontier
C8_Witness ==
    /\ EngineReturned /\ exitedBy = "empty"
    /\ ZeroCycleThrough(graph, start)

\* ---- C9 -----------------------------------------------------------------
Stale(e) == e[2] \in DOMAIN paths /\ e[1] > paths[e[2]][1]

\* C9: extracting a frontier entry whose distance is greater than the node's
\* current record only removes that entry: no record changes and nothing is
\* inserted.
C9_StaleEntryNoEffect ==
    [][(pc = "engine" /\ queue # {} /\ extracted' \in queue /\ Stale(extracted')) =>
          (paths' = paths /\ queue' = queue \ {extracted'})]_vars

\* a stale entry of a node that has outgoing edges was just extracted
C9_Witness ==
    /\ pc = "engine"
    /\ extracted[2] # NoNode /\ Stale(extracted)
    /\ graph[extracted[2]] # {}

\* ---- C10 ----------------------------------------------------------------
\* C10: throughout a run from a source that is a node of the graph, the
\* source has no predecessor; every other reached node has a predecessor p
\* with an edge (p, node, w) and dist[node] = dist[p] + w; predecessor links
\* lead to the source without repeating a node; the backward walk of
\* createResultsMessage only visits keys of the map and repeats no node.
C10_PredecessorTree ==
    /\ pc # "terminated"
    /\ (InRun /\ HasRecord(graph, start)) =>
        /\ paths[start][2] = NoNode
        /\ \A n \in DOMAIN paths :
            /\ (paths[n][1] = INT_MAX) => paths[n][2] = NoNode
            /\ (n # start /\ paths[n][1] # INT_MAX) =>
                LET p == paths[n][2]
                IN /\ p \in DOMAIN graph
                   /\ p \in DOMAIN paths
                   /\ \E e \in graph[p] : e[1] = n /\ paths[n][1] = paths[p][1] + e[2]
                   /\ ChainToSource(paths, n, start, {})
    /\ (pc = "walk") =>
        /\ \A i \in 1..Len(path) : path[i] \in DOMAIN paths
        /\ \A i, j \in 1..Len(path) : i # j => path[i] # path[j]
        /\ current # NoNode => (current \in DOMAIN paths /\ \A i \in 1..Len(path) : path[i] # current)

\* the walk went back over three nodes and reached the source
C10_Witness ==
    /\ pc = "walk" /\ current = NoNode
    /\ Len(path) >= 3
    /\ path[Len(path)] = start

====
